---- MODULE Spec2Model ----
(***************************************************************************)
(* Model of the OnCue typing test: the metrics engine of                   *)
(* src/lib/calculations.ts and the typing page of src/app/page.tsx.        *)
(*                                                                         *)
(* Numbers.  The source computes in IEEE doubles; here every quotient is   *)
(* kept as an exact fraction (numerator, denominator) and is only turned   *)
(* into an integer where the source calls Math.round or Math.sqrt.         *)
(* Timestamps are integers (Date.now()), a nullable number is the value    *)
(* NULL, a string is a sequence of one-character strings and a character   *)
(* index is 0-based as in the source.                                      *)
(*                                                                         *)
(* The display-only state of the page (elapsedTime and its interval        *)
(* timer, the live WPM/accuracy read-outs) takes no part in any recorded   *)
(* value and is left out.                                                  *)
(***************************************************************************)
EXTENDS Integers, Sequences, FiniteSets, TLC

VARIABLES
    testStatus,          \* 'idle' | 'active' | 'completed'
    typedText,           \* page state / argument typedText
    keystrokes,          \* page state / argument keystrokes
    startTime,           \* page state (NULL before the first start) / argument
    currentKeyDownTime,  \* page state, NULL when no key-down is pending
    referenceText,       \* the sample text / argument referenceText
    endTime,             \* endTime of the last metrics call
    metrics,             \* record returned by the last calculatePerformanceMetrics
    fatigue,             \* record returned by detectFatigue inside that call
    now,                 \* Date.now()
    held,                \* keys physically down, each with what its press
                         \* began with (see Press)
    pendingInput,        \* characters typed whose input event is not yet delivered
    pendingSaves,        \* sessions handed to saveSession, not yet settled
    sessionsStore,       \* the typingSessions object store
    route,               \* current route of the router
    nextId,              \* number of ids generateId has handed out
    attemptIds,          \* ids of the sessions built since the last start
    presses,             \* number of key presses so far
    pc                   \* position of the caller of the metrics functions

vars == <<testStatus, typedText, keystrokes, startTime, currentKeyDownTime,
          referenceText, endTime, metrics, fatigue, now, held, pendingInput,
          pendingSaves, sessionsStore, route, nextId, attemptIds, presses,
          pc>>

pageVars == <<testStatus, currentKeyDownTime, now, held, pendingInput,
              pendingSaves, sessionsStore, route, nextId, attemptIds,
              presses>>

(***************************************************************************)
(* Bounds of the model.                                                    *)
(***************************************************************************)
MaxLen == 3          \* longest typed / reference text of the text cases
MaxStatEvents == 3   \* longest event sequence of the duration cases
MaxEvents == 12      \* longest event sequence of the fatigue cases
MaxPresses == 2      \* most key presses on the page
MaxSessions == 2     \* most Finish clicks that reach saveSession

ClockValues == {1, 2}    \* values Date.now() takes on the page
Chars == {"a", "b"}
Times == {0, 2, 4, 6, 7}
Durations == {0, 1, 5, 8}

(***************************************************************************)
(* Values of the source language.                                          *)
(***************************************************************************)
NULL == -1000000
UNDEFINED == "undefined"
ModifierKeys == {"Shift", "Control", "Alt", "Meta"}
MinFatigueEvents == 10
FatigueThreshold == 20

Min(a, b) == IF a < b THEN a ELSE b
Max(a, b) == IF a > b THEN a ELSE b

\* s[i] of a string, i 0-based; undefined past the end
CharAt(s, i) == IF i >= 0 /\ i < Len(s) THEN s[i + 1] ELSE UNDEFINED

\* a fraction n/d, d # 0
Frac(n, d) == [n |-> n, d |-> d]

\* the result of a division by zero (Infinity or NaN), which Math.round and
\* Math.sqrt hand on unchanged
NAN == -2000000

\* Math.round(n/d): the nearest integer, halves towards +infinity
Round(n, d) == IF d = 0 THEN NAN
               ELSE IF d < 0 THEN (-2 * n - d) \div (-2 * d)
               ELSE (2 * n + d) \div (2 * d)

\* Math.round(Math.sqrt(s/n)) for s >= 0, n > 0: the least r with
\* sqrt(s/n) < r + 1/2
RECURSIVE RoundSqrtFrom(_, _, _)
RoundSqrtFrom(s, n, r) ==
    IF 4 * s < (2 * r + 1) * (2 * r + 1) * n THEN r
    ELSE RoundSqrtFrom(s, n, r + 1)
RoundSqrt(s, n) == IF n = 0 THEN NAN ELSE RoundSqrtFrom(s, n, 0)

(***************************************************************************)
(* src/lib/calculations.ts                                                 *)
(***************************************************************************)
\* mutant: the guard for a duration of 0 is missing
calculateWPM_m(characterCount, durationMs) ==
    Round(characterCount * 60000 * durationMs.d, 5 * durationMs.n)
\* durationMs is a fraction: detectFatigue passes a third of the window
calculateWPM(characterCount, durationMs) ==
    IF durationMs.n = 0 THEN 0
    ELSE \* words / minutes = (characterCount / 5) / (durationMs / 60000)
         Round(characterCount * 60000 * durationMs.d, 5 * durationMs.n)

\* the loop "for i in from..to-1: if typed[i] === reference[i] correct++",
\* summed by halves to keep the evaluation shallow on long texts
RECURSIVE CountCorrect(_, _, _, _)
CountCorrect(typed, reference, from, to) ==
    IF from >= to THEN 0
    ELSE IF to = from + 1
         THEN (IF CharAt(typed, from) = CharAt(reference, from) THEN 1 ELSE 0)
         ELSE LET mid == (from + to) \div 2
              IN  CountCorrect(typed, reference, from, mid)
                  + CountCorrect(typed, reference, mid, to)

\* mutant: the matches are divided by the comparison length, not the typed
\* length (nothing compared counts as no match)
calculateAccuracy_m(typed, reference) ==
    IF Len(typed) = 0 THEN 100
    ELSE LET comparisonLength == Min(Len(typed), Len(reference))
             correct == CountCorrect(typed, reference, 0, comparisonLength)
         IN  IF comparisonLength = 0 THEN 0
             ELSE Round(correct * 100, comparisonLength)
\* mutant: the guard for an empty typed text is missing
calculateAccuracy_m2(typed, reference) ==
    LET comparisonLength == Min(Len(typed), Len(reference))
        correct == CountCorrect(typed, reference, 0, comparisonLength)
    IN  Round(correct * 100, Len(typed))
calculateAccuracy(typed, reference) ==
    IF Len(typed) = 0 THEN 100
    ELSE LET comparisonLength == Min(Len(typed), Len(reference))
             correct == CountCorrect(typed, reference, 0, comparisonLength)
         IN  Round(correct * 100, Len(typed))

calculateErrorRate(typed, reference) == 100 - calculateAccuracy(typed, reference)

HasDuration(k) == k.duration # NULL
\* k.duration || 0
DurationOr0(k) == IF k.duration = NULL THEN 0 ELSE k.duration

RECURSIVE SumDurations(_)
SumDurations(ks) ==
    IF ks = <<>> THEN 0 ELSE DurationOr0(Head(ks)) + SumDurations(Tail(ks))

\* mutant: the guard for no valid duration is missing
calculateAverageKeystrokeDuration_m(ks) ==
    LET validKeystrokes == SelectSeq(ks, HasDuration)
    IN  Round(SumDurations(validKeystrokes), Len(validKeystrokes))
calculateAverageKeystrokeDuration(ks) ==
    LET validKeystrokes == SelectSeq(ks, HasDuration)
    IN  IF Len(validKeystrokes) = 0 THEN 0
        ELSE Round(SumDurations(validKeystrokes), Len(validKeystrokes))

RECURSIVE SumSquaredDiffs(_, _)
SumSquaredDiffs(ks, mean) ==
    IF ks = <<>> THEN 0
    ELSE LET diff == DurationOr0(Head(ks)) - mean
         IN  diff * diff + SumSquaredDiffs(Tail(ks), mean)

RECURSIVE SumSquares(_)
SumSquares(ks) ==
    IF ks = <<>> THEN 0
    ELSE DurationOr0(Head(ks)) * DurationOr0(Head(ks)) + SumSquares(Tail(ks))

\* mutant: the variance is taken about the unrounded mean sum/n, where it is
\* (n * sum of squares - sum^2) / n^2
calculateKeystrokeDurationStdDev_m(ks) ==
    LET validKeystrokes == SelectSeq(ks, HasDuration)
        n == Len(validKeystrokes)
        sum == SumDurations(validKeystrokes)
    IN  IF n = 0 THEN 0
        ELSE RoundSqrt(n * SumSquares(validKeystrokes) - sum * sum, n * n)
calculateKeystrokeDurationStdDev(ks) ==
    LET validKeystrokes == SelectSeq(ks, HasDuration)
    IN  IF Len(validKeystrokes) = 0 THEN 0
        ELSE LET mean == calculateAverageKeystrokeDuration(ks)
             IN  RoundSqrt(SumSquaredDiffs(validKeystrokes, mean),
                           Len(validKeystrokes))

\* mutant: the clamp at 100 is missing
calculateTremorScore_m(ks) ==
    LET stdDev == calculateKeystrokeDurationStdDev(ks)
        mean == calculateAverageKeystrokeDuration(ks)
    IN  IF mean = 0 THEN 0 ELSE Round(stdDev * 100 * 2, mean)
calculateTremorScore(ks) ==
    LET stdDev == calculateKeystrokeDurationStdDev(ks)
        mean == calculateAverageKeystrokeDuration(ks)
    IN  IF mean = 0 THEN 0
        ELSE \* round((stdDev / mean) * 100 * 2)
             Min(100, Round(stdDev * 100 * 2, mean))

ZeroFatigue ==
    [fatigueDetected |-> FALSE, fatigueScore |-> 0, earlyWPM |-> 0, lateWPM |-> 0]

\* mutant: the sample guard lets nine events through
TooFewEvents_m(ks) == Len(ks) < MinFatigueEvents - 1
\* keystrokes.length < 10
TooFewEvents(ks) == Len(ks) < MinFatigueEvents

\* keyDownTime < startTime + thirdDuration, thirdDuration = total / 3
IsEarly(k, start, end) == 3 * k.keyDownTime < 3 * start + (end - start)
\* mutant: the factor 2 of the last third is missing
IsLate_m(k, start, end) == 3 * k.keyDownTime > 3 * start + (end - start)
\* keyDownTime > startTime + 2 * thirdDuration
IsLate(k, start, end) == 3 * k.keyDownTime > 3 * start + 2 * (end - start)

earlyKeystrokes(ks, start, end) ==
    LET EarlyKey(k) == IsEarly(k, start, end) IN SelectSeq(ks, EarlyKey)
lateKeystrokes(ks, start, end) ==
    LET LateKey(k) == IsLate(k, start, end) IN SelectSeq(ks, LateKey)

\* mutant: the guard asks for both groups to be empty
GroupEmpty_m(early, late) == Len(early) = 0 /\ Len(late) = 0
\* earlyKeystrokes.length === 0 || lateKeystrokes.length === 0
GroupEmpty(early, late) == Len(early) = 0 \/ Len(late) = 0

\* mutant: the decline is taken as a percentage of lateWPM
Decline_m(earlyWPM, lateWPM) ==
    IF earlyWPM > 0 THEN Frac((earlyWPM - lateWPM) * 100, lateWPM)
    ELSE Frac(0, 1)
\* earlyWPM > 0 ? ((earlyWPM - lateWPM) / earlyWPM) * 100 : 0, a fraction
Decline(earlyWPM, lateWPM) ==
    IF earlyWPM > 0 THEN Frac((earlyWPM - lateWPM) * 100, earlyWPM)
    ELSE Frac(0, 1)

\* mutant: the clamp at 0 is missing
FatigueScore_m(decline) == Round(decline.n, decline.d)
\* Math.max(0, Math.round(decline))
FatigueScore(decline) == Max(0, Round(decline.n, decline.d))

detectFatigue(ks, start, end) ==
    IF TooFewEvents(ks) THEN ZeroFatigue
    ELSE
      LET totalDuration == end - start
          thirdDuration == Frac(totalDuration, 3)
          early == earlyKeystrokes(ks, start, end)
          late == lateKeystrokes(ks, start, end)
      IN
        IF GroupEmpty(early, late) THEN ZeroFatigue
        ELSE
          LET earlyWPM == calculateWPM(Len(early), thirdDuration)
              lateWPM == calculateWPM(Len(late), thirdDuration)
              decline == Decline(earlyWPM, lateWPM)
          IN  [fatigueDetected |-> decline.n > FatigueThreshold * decline.d,
               fatigueScore |-> FatigueScore(decline),
               earlyWPM |-> Round(earlyWPM, 1),
               lateWPM |-> Round(lateWPM, 1)]

IsCorrectKey(k) == k.isCorrect

\* mutant: the error rate is subtracted the wrong way round
calculatePerformanceMetrics_m(typed, reference, ks, start, end) ==
    LET duration == end - start
        accuracy == calculateAccuracy(typed, reference)
        fat == detectFatigue(ks, start, end)
        correctKeystrokes == Len(SelectSeq(ks, IsCorrectKey))
    IN  [wpm |-> calculateWPM(Len(typed), Frac(duration, 1)),
         accuracy |-> accuracy,
         errorRate |-> accuracy - 100,
         totalKeystrokes |-> Len(ks),
         correctKeystrokes |-> correctKeystrokes,
         incorrectKeystrokes |-> Len(ks) - correctKeystrokes,
         averageKeystrokeDuration |-> calculateAverageKeystrokeDuration(ks),
         keystrokeDurationStdDev |-> calculateKeystrokeDurationStdDev(ks),
         tremorSeverityScore |-> calculateTremorScore(ks),
         fatigueDetected |-> fat.fatigueDetected,
         fatigueScore |-> fat.fatigueScore]

\* mutant: the incorrect keystrokes are counted against the typed length
calculatePerformanceMetrics_m2(typed, reference, ks, start, end) ==
    LET duration == end - start
        accuracy == calculateAccuracy(typed, reference)
        fat == detectFatigue(ks, start, end)
        correctKeystrokes == Len(SelectSeq(ks, IsCorrectKey))
    IN  [wpm |-> calculateWPM(Len(typed), Frac(duration, 1)),
         accuracy |-> accuracy,
         errorRate |-> 100 - accuracy,
         totalKeystrokes |-> Len(ks),
         correctKeystrokes |-> correctKeystrokes,
         incorrectKeystrokes |-> Len(typed) - correctKeystrokes,
         averageKeystrokeDuration |-> calculateAverageKeystrokeDuration(ks),
         keystrokeDurationStdDev |-> calculateKeystrokeDurationStdDev(ks),
         tremorSeverityScore |-> calculateTremorScore(ks),
         fatigueDetected |-> fat.fatigueDetected,
         fatigueScore |-> fat.fatigueScore]

calculatePerformanceMetrics(typed, reference, ks, start, end) ==
    LET duration == end - start
        accuracy == calculateAccuracy(typed, reference)
        fat == detectFatigue(ks, start, end)
        correctKeystrokes == Len(SelectSeq(ks, IsCorrectKey))
    IN  [wpm |-> calculateWPM(Len(typed), Frac(duration, 1)),
         accuracy |-> accuracy,
         errorRate |-> 100 - accuracy,
         totalKeystrokes |-> Len(ks),
         correctKeystrokes |-> correctKeystrokes,
         incorrectKeystrokes |-> Len(ks) - correctKeystrokes,
         averageKeystrokeDuration |-> calculateAverageKeystrokeDuration(ks),
         keystrokeDurationStdDev |-> calculateKeystrokeDurationStdDev(ks),
         tremorSeverityScore |-> calculateTremorScore(ks),
         fatigueDetected |-> fat.fatigueDetected,
         fatigueScore |-> fat.fatigueScore]

NoMetrics == [wpm |-> 0, accuracy |-> 0, errorRate |-> 0, totalKeystrokes |-> 0,
              correctKeystrokes |-> 0, incorrectKeystrokes |-> 0,
              averageKeystrokeDuration |-> 0, keystrokeDurationStdDev |-> 0,
              tremorSeverityScore |-> 0, fatigueDetected |-> FALSE,
              fatigueScore |-> 0]

(***************************************************************************)
(* src/app/page.tsx: the typing page                                       *)
(***************************************************************************)
RefText == <<"a", "b", "a">>
Keys == Chars \cup {"Shift"}

KeystrokeEvent(key, keyDownTime, keyUpTime, duration, isCorrect, characterIndex) ==
    [key |-> key, keyDownTime |-> keyDownTime, keyUpTime |-> keyUpTime,
     duration |-> duration, isCorrect |-> isCorrect,
     characterIndex |-> characterIndex]

TypingSession(sessionId, m, end) ==
    [id |-> sessionId, timestamp |-> startTime, referenceText |-> referenceText,
     typedText |-> typedText, keystrokes |-> keystrokes, startTime |-> startTime,
     endTime |-> end, duration |-> end - startTime, wpm |-> m.wpm,
     accuracy |-> m.accuracy, errorRate |-> m.errorRate,
     tremorScore |-> m.tremorSeverityScore, fatigueScore |-> m.fatigueScore]

\* what the keyboard and the textarea know of a key that is down: the time
\* it went down and the position its character took in the typed text, both
\* NULL for a press that is not a press of the running attempt (and pos for a
\* key that types nothing)
Press(at, pos) == [at |-> at, pos |-> pos]
NoKeys == [key \in {} |-> Press(NULL, NULL)]

Init ==
    /\ testStatus = "idle"
    /\ typedText = <<>>
    /\ keystrokes = <<>>
    /\ startTime = NULL
    /\ currentKeyDownTime = NULL
    /\ referenceText = RefText
    /\ endTime = NULL
    /\ metrics = NoMetrics
    /\ fatigue = ZeroFatigue
    /\ now = 1
    /\ held = NoKeys
    /\ pendingInput = <<>>
    /\ pendingSaves = {}
    /\ sessionsStore = {}
    /\ route = "/"
    /\ nextId = 0
    /\ attemptIds = {}
    /\ presses = 0
    /\ pc = "page"

\* the page is mounted and the browser is between two events
PageReady == pc = "page" /\ route = "/" /\ pendingInput = <<>>

\* Date.now() moves on; only the time that passes during an attempt is
\* ever read
Tick ==
    /\ PageReady
    /\ testStatus = "active"
    /\ now + 1 \in ClockValues
    /\ now' = now + 1
    /\ UNCHANGED <<testStatus, typedText, keystrokes, startTime,
                   currentKeyDownTime, referenceText, endTime, metrics, fatigue,
                   held, pendingInput, pendingSaves, sessionsStore, route,
                   nextId, attemptIds, pc, presses>>

\* "Start Test" (idle) and "Take Another Test" (completed)
handleStartTest ==
    /\ PageReady
    /\ testStatus \in {"idle", "completed"}
    /\ testStatus' = "active"
    /\ startTime' = now
    /\ typedText' = <<>>
    /\ keystrokes' = <<>>
    /\ held' = [key \in DOMAIN held |-> Press(NULL, NULL)]
    /\ attemptIds' = {}
    /\ UNCHANGED <<currentKeyDownTime, referenceText, endTime, metrics, fatigue,
                   now, pendingInput, pendingSaves, sessionsStore, route,
                   nextId, pc, presses>>

\* "Finish Test", up to the await of saveSession
handleFinishTest ==
    /\ PageReady
    /\ testStatus = "active"
    /\ nextId < MaxSessions
    /\ IF startTime = NULL \/ startTime = 0
       THEN UNCHANGED vars
       ELSE LET end == now
                sessionId == nextId + 1
                m == calculatePerformanceMetrics(typedText, referenceText,
                                                 keystrokes, startTime, end)
            IN  /\ endTime' = end
                /\ nextId' = sessionId
                /\ metrics' = m
                /\ fatigue' = detectFatigue(keystrokes, startTime, end)
                /\ pendingSaves' = pendingSaves \cup {TypingSession(sessionId, m, end)}
                /\ attemptIds' = attemptIds \cup {sessionId}
                /\ UNCHANGED <<testStatus, typedText, keystrokes, startTime,
                               currentKeyDownTime, referenceText, now, held,
                               pendingInput, sessionsStore, route, pc, presses>>

\* saveSession resolves: store.add succeeded, then router.push
SaveResolved ==
    /\ pc = "page"
    /\ \E session \in pendingSaves :
         /\ \A other \in sessionsStore : other.id # session.id
         /\ pendingSaves' = pendingSaves \ {session}
         /\ sessionsStore' = sessionsStore \cup {session}
         /\ route' = <<"/results", session.id>>
    /\ UNCHANGED <<testStatus, typedText, keystrokes, startTime,
                   currentKeyDownTime, referenceText, endTime, metrics, fatigue,
                   now, held, pendingInput, nextId, attemptIds, pc, presses>>

\* mutant: the catch branch leaves the status as it is
SaveRejected_m ==
    /\ pc = "page"
    /\ \E session \in pendingSaves :
         pendingSaves' = pendingSaves \ {session}
    /\ UNCHANGED <<testStatus, typedText, keystrokes, startTime,
                   currentKeyDownTime, referenceText, endTime, metrics, fatigue,
                   now, held, pendingInput, sessionsStore, route, nextId,
                   attemptIds, pc, presses>>
\* saveSession rejects (open or add failed): the catch branch
SaveRejected ==
    /\ pc = "page"
    /\ \E session \in pendingSaves :
         pendingSaves' = pendingSaves \ {session}
    /\ testStatus' = IF route = "/" THEN "completed" ELSE testStatus
    /\ UNCHANGED <<typedText, keystrokes, startTime, currentKeyDownTime,
                   referenceText, endTime, metrics, fatigue, now, held,
                   pendingInput, sessionsStore, route, nextId, attemptIds, pc,
                   presses>>

\* mutant: the key-down time is taken whatever the status
handleKeyDown_m(key) ==
    /\ PageReady
    /\ key \notin DOMAIN held
    /\ presses < MaxPresses
    /\ presses' = presses + 1
    /\ held' = [k \in DOMAIN held \cup {key} |->
                  IF k # key THEN held[k]
                  ELSE IF testStatus # "active" THEN Press(NULL, NULL)
                  ELSE IF key \in Chars THEN Press(now, Len(typedText))
                  ELSE Press(now, NULL)]
    /\ currentKeyDownTime' =
         IF key \in ModifierKeys THEN currentKeyDownTime ELSE now
    /\ pendingInput' =
         IF testStatus = "active" /\ key \in Chars THEN <<key>> ELSE <<>>
    /\ UNCHANGED <<testStatus, typedText, keystrokes, startTime, referenceText,
                   endTime, metrics, fatigue, now, pendingSaves, sessionsStore,
                   route, nextId, attemptIds, pc>>
\* a key goes down: handleKeyDown, then the browser queues the input event of
\* a character typed into the enabled textarea
handleKeyDown(key) ==
    /\ PageReady
    /\ key \notin DOMAIN held
    /\ presses < MaxPresses
    /\ presses' = presses + 1
    /\ held' = [k \in DOMAIN held \cup {key} |->
                  IF k # key THEN held[k]
                  ELSE IF testStatus # "active" THEN Press(NULL, NULL)
                  ELSE IF key \in Chars THEN Press(now, Len(typedText))
                  ELSE Press(now, NULL)]
    /\ currentKeyDownTime' =
         IF testStatus # "active" THEN currentKeyDownTime
         ELSE IF key \in ModifierKeys THEN currentKeyDownTime
         ELSE now
    /\ pendingInput' =
         IF testStatus = "active" /\ key \in Chars THEN <<key>> ELSE <<>>
    /\ UNCHANGED <<testStatus, typedText, keystrokes, startTime, referenceText,
                   endTime, metrics, fatigue, now, pendingSaves, sessionsStore,
                   route, nextId, attemptIds, pc>>

\* the textarea's onChange: setTypedText(e.target.value)
onChange ==
    /\ pc = "page" /\ route = "/"
    /\ pendingInput # <<>>
    /\ typedText' = typedText \o pendingInput
    /\ pendingInput' = <<>>
    /\ UNCHANGED <<testStatus, keystrokes, startTime, currentKeyDownTime,
                   referenceText, endTime, metrics, fatigue, now, held,
                   pendingSaves, sessionsStore, route, nextId, attemptIds, pc,
                   presses>>

\* mutant: the new event is put in front of the recorded ones
handleKeyUp_m(key) ==
    /\ PageReady
    /\ key \in DOMAIN held
    /\ held' = [k \in DOMAIN held \ {key} |-> held[k]]
    /\ IF testStatus # "active" \/ currentKeyDownTime = NULL
       THEN UNCHANGED <<keystrokes, currentKeyDownTime>>
       ELSE /\ keystrokes' =
                   <<KeystrokeEvent(key, currentKeyDownTime, now,
                                    now - currentKeyDownTime,
                                    key = CharAt(referenceText, Len(typedText)),
                                    Len(typedText))>> \o keystrokes
            /\ currentKeyDownTime' = NULL
    /\ UNCHANGED <<testStatus, typedText, startTime, referenceText, endTime,
                   metrics, fatigue, now, pendingInput, pendingSaves,
                   sessionsStore, route, nextId, attemptIds, pc, presses>>
\* a key goes up: handleKeyUp
handleKeyUp(key) ==
    /\ PageReady
    /\ key \in DOMAIN held
    /\ held' = [k \in DOMAIN held \ {key} |-> held[k]]
    /\ IF testStatus # "active" \/ currentKeyDownTime = NULL
       THEN UNCHANGED <<keystrokes, currentKeyDownTime>>
       ELSE LET keyUpTime == now
                duration == keyUpTime - currentKeyDownTime
                currentCharIndex == Len(typedText)
                isCorrect == key = CharAt(referenceText, currentCharIndex)
            IN  /\ keystrokes' = Append(keystrokes,
                       KeystrokeEvent(key, currentKeyDownTime, keyUpTime,
                                      duration, isCorrect, currentCharIndex))
                /\ currentKeyDownTime' = NULL
    /\ UNCHANGED <<testStatus, typedText, startTime, referenceText, endTime,
                   metrics, fatigue, now, pendingInput, pendingSaves,
                   sessionsStore, route, nextId, attemptIds, pc, presses>>

KeyDown == \E key \in Keys : handleKeyDown(key)
KeyUp == \E key \in Keys : handleKeyUp(key)

Next ==
    \/ Tick
    \/ handleStartTest
    \/ handleFinishTest
    \/ SaveResolved
    \/ SaveRejected
    \/ KeyDown
    \/ onChange
    \/ KeyUp

Spec == Init /\ [][Next]_vars

(***************************************************************************)
(* The metrics functions called on their own.  The arguments are drawn     *)
(* into typedText, referenceText, keystrokes, startTime and endTime, then  *)
(* Call applies calculatePerformanceMetrics to them.  pc tells which       *)
(* arguments vary: "text" (both texts and the window), "durations" (short  *)
(* event sequences with every duration and correctness flag) and           *)
(* "timeline" (event sequences long enough for detectFatigue, in           *)
(* chronological order, and the window).                                   *)
(***************************************************************************)
Strings(n) == UNION {[1..k -> Chars] : k \in 0..n}
\* two texts long enough for a quotient to round up to 100
LongTexts == {[i \in 1..n |-> "a"] : n \in {200, 201}}

StatEvent(duration, isCorrect) ==
    KeystrokeEvent("a", 0, duration, duration, isCorrect, 0)
\* the event of a key that goes down at t and up at the next time of Times;
\* the key that goes down last is not released
NextTime(t) == IF \E u \in Times : u > t
               THEN CHOOSE u \in Times : u > t /\ \A v \in Times : v > t => u <= v
               ELSE NULL
TimelineEvent(t) ==
    LET up == NextTime(t)
    IN  KeystrokeEvent("a", t, up, IF up = NULL THEN NULL ELSE up - t, t # 4, 0)

PageUnused ==
    /\ testStatus = "idle"
    /\ currentKeyDownTime = NULL
    /\ metrics = NoMetrics
    /\ fatigue = ZeroFatigue
    /\ now = 1
    /\ held = NoKeys
    /\ pendingInput = <<>>
    /\ pendingSaves = {}
    /\ sessionsStore = {}
    /\ route = "/"
    /\ nextId = 0
    /\ attemptIds = {}
    /\ presses = 0

InitText ==
    /\ pc = "text"
    /\ typedText \in Strings(MaxLen) \cup LongTexts
    /\ referenceText \in Strings(MaxLen) \cup LongTexts
    /\ keystrokes = <<>>
    /\ startTime \in Times
    /\ endTime \in Times
    /\ PageUnused

InitStats ==
    /\ pc = "durations"
    /\ typedText = <<>>
    /\ referenceText = RefText
    /\ keystrokes = <<>>
    /\ startTime = 0
    /\ endTime = 6
    /\ PageUnused

InitFatigue ==
    /\ pc = "timeline"
    /\ typedText = <<"a", "a">>
    /\ referenceText = RefText
    /\ keystrokes = <<>>
    /\ startTime \in Times
    /\ endTime \in Times
    /\ PageUnused

PushStat ==
    /\ pc = "durations"
    /\ Len(keystrokes) < MaxStatEvents
    /\ \E duration \in Durations \cup {NULL}, isCorrect \in BOOLEAN :
         keystrokes' = Append(keystrokes, StatEvent(duration, isCorrect))
    /\ UNCHANGED <<typedText, referenceText, startTime, endTime, metrics,
                   fatigue, pc>>
    /\ UNCHANGED pageVars

\* slow typing: an attempt of 100 or 120 seconds with keys going down at
\* its start and near its end and never released, so that a group's WPM
\* can round to 0
SlowTimes == {0, 95000}
SlowEnds == {100000, 120000}
SlowEvent(t) == KeystrokeEvent("a", t, NULL, NULL, TRUE, 0)

InitSlow ==
    /\ pc = "slow"
    /\ typedText = <<"a", "a">>
    /\ referenceText = RefText
    /\ keystrokes = <<>>
    /\ startTime = 0
    /\ endTime \in SlowEnds
    /\ PageUnused

PushSlow ==
    /\ pc = "slow"
    /\ Len(keystrokes) < MaxEvents
    /\ \E t \in SlowTimes :
         /\ keystrokes # <<>> => keystrokes[Len(keystrokes)].keyDownTime <= t
         /\ keystrokes' = Append(keystrokes, SlowEvent(t))
    /\ UNCHANGED <<typedText, referenceText, startTime, endTime, metrics,
                   fatigue, pc>>
    /\ UNCHANGED pageVars

PushTimeline ==
    /\ pc = "timeline"
    /\ Len(keystrokes) < MaxEvents
    /\ \E t \in Times :
         /\ keystrokes # <<>> => keystrokes[Len(keystrokes)].keyDownTime <= t
         /\ keystrokes' = Append(keystrokes, TimelineEvent(t))
    /\ UNCHANGED <<typedText, referenceText, startTime, endTime, metrics,
                   fatigue, pc>>
    /\ UNCHANGED pageVars

Call ==
    /\ pc \in {"text", "durations", "timeline", "slow"}
    /\ metrics' = calculatePerformanceMetrics(typedText, referenceText,
                                              keystrokes, startTime, endTime)
    /\ fatigue' = detectFatigue(keystrokes, startTime, endTime)
    /\ pc' = "returned"
    /\ UNCHANGED <<typedText, referenceText, keystrokes, startTime, endTime>>
    /\ UNCHANGED pageVars

SpecText == InitText /\ [][Call]_vars
SpecStats == InitStats /\ [][PushStat \/ Call]_vars
SpecFatigue == InitFatigue /\ [][PushTimeline \/ Call]_vars
SpecScore == (InitFatigue \/ InitSlow)
             /\ [][PushTimeline \/ PushSlow \/ Call]_vars
SpecAll == (Init \/ InitText \/ InitStats \/ InitFatigue)
           /\ [][Next \/ PushStat \/ PushTimeline \/ Call]_vars

(***************************************************************************)
(* Properties                                                              *)
(***************************************************************************)
\* r = Math.round(n/d) for d > 0, stated without computing it:
\* r - 1/2 <= n/d < r + 1/2
IsNearest(r, n, d) == 2 * r * d - d <= 2 * n /\ 2 * n < 2 * r * d + d

\* number of positions below both lengths where the two texts agree
Matches(typed, reference) ==
    Cardinality({i \in 1..Min(Len(typed), Len(reference)) : typed[i] = reference[i]})

\* reference is a proper prefix of typed
OverlongPerfect(typed, reference) ==
    /\ Len(typed) > Len(reference)
    /\ \A i \in 1..Len(reference) : typed[i] = reference[i]

\* C1: for a non-empty typed text the accuracy returned is
\* round(matches / len(typedText) * 100), matches counted over the positions
\* below both lengths: the denominator is the typed length.
C1_AccuracyOverTypedLength ==
    pc = "returned" /\ typedText # <<>> =>
        IsNearest(metrics.accuracy, 100 * Matches(typedText, referenceText),
                  Len(typedText))

\* C1 witness: a typed text longer than the reference with one match in
\* three typed characters scores 33, as "helo" against "hello" scores 75
C1_Witness ==
    /\ pc = "returned"
    /\ Len(typedText) = 3 /\ Len(referenceText) = 2
    /\ Matches(typedText, referenceText) = 1
    /\ metrics.accuracy = 33

IsNearestQ(r, n, d) == IF d > 0 THEN IsNearest(r, n, d) ELSE IsNearest(r, -n, -d)

\* the thirds of the window, counted on the argument sequence:
\* 3 * keyDownTime against startTime + total/3 and startTime + 2 * total/3
EarlyIndices == {i \in 1..Len(keystrokes) :
                    3 * keystrokes[i].keyDownTime < 2 * startTime + endTime}
LateIndices == {i \in 1..Len(keystrokes) :
                    3 * keystrokes[i].keyDownTime > startTime + 2 * endTime}
MiddleIndices == {i \in 1..Len(keystrokes) :
                    /\ 3 * keystrokes[i].keyDownTime >= 2 * startTime + endTime
                    /\ 3 * keystrokes[i].keyDownTime <= startTime + 2 * endTime}
EarlyCount == Cardinality(EarlyIndices)
LateCount == Cardinality(LateIndices)

InSeq(x, seq) == \E i \in 1..Len(seq) : seq[i] = x

\* C3: with at least 10 events and both groups non-empty, earlyWPM and
\* lateWPM are the WPM of the group's event count over a third of the window,
\* fatigue is detected exactly when the decline (earlyWPM - lateWPM) /
\* earlyWPM * 100 (0 unless earlyWPM > 0) exceeds 20, and the score is
\* max(0, round(decline)): never negative, 0 when the session speeds up.
C3_FatigueFormula ==
    (/\ pc = "returned"
     /\ Len(keystrokes) >= 10
     /\ EarlyCount > 0
     /\ LateCount > 0) =>
        LET total == endTime - startTime
            e == fatigue.earlyWPM
            l == fatigue.lateWPM
        IN  /\ IF total = 0 THEN e = 0 /\ l = 0
               ELSE /\ IsNearestQ(e, EarlyCount * 60000 * 3, 5 * total)
                    /\ IsNearestQ(l, LateCount * 60000 * 3, 5 * total)
            /\ fatigue.fatigueDetected <=> (e > 0 /\ (e - l) * 100 > 20 * e)
            /\ fatigue.fatigueScore >= 0
            /\ e <= 0 => fatigue.fatigueScore = 0
            /\ e > 0 =>
                 \/ IsNearest(fatigue.fatigueScore, (e - l) * 100, e)
                 \/ fatigue.fatigueScore = 0 /\ 2 * (e - l) * 100 < e
            /\ l >= e => fatigue.fatigueScore = 0
            /\ metrics.fatigueScore = fatigue.fatigueScore
            /\ metrics.fatigueDetected = fatigue.fatigueDetected

\* C3 witness: 8 early and 4 late events in a window of 7 ms: the WPMs are
\* rounded (288000/7, 144000/7) and the rounded decline is 50
C3_Witness ==
    /\ pc = "returned"
    /\ endTime - startTime = 7
    /\ EarlyCount = 8 /\ LateCount = 4
    /\ fatigue = [fatigueDetected |-> TRUE, fatigueScore |-> 50,
                  earlyWPM |-> 41143, lateWPM |-> 20571]

\* the groups as detectFatigue forms them never share an event, and an event
\* of the middle third, its boundaries included, is in neither
GroupsSeparate ==
    LET early == earlyKeystrokes(keystrokes, startTime, endTime)
        late == lateKeystrokes(keystrokes, startTime, endTime)
    IN  /\ \A i \in 1..Len(keystrokes) :
             ~(InSeq(keystrokes[i], early) /\ InSeq(keystrokes[i], late))
        /\ \A i \in MiddleIndices :
             ~InSeq(keystrokes[i], early) /\ ~InSeq(keystrokes[i], late)

\* C4 as claimed: for any startTime and endTime the early and the late group
\* share no event and middle-third events are in neither.
C4_GroupsSeparateAnyWindow ==
    pc = "returned" /\ Len(keystrokes) >= 10 => GroupsSeparate

\* C4 amended: the same for every window with startTime <= endTime.
C4_GroupsSeparate ==
    pc = "returned" /\ Len(keystrokes) >= 10 /\ startTime <= endTime =>
        GroupsSeparate

\* C4 witness: a window of 6 ms with events in the first third, on both
\* boundaries of the middle third and in the last third
C4_Witness ==
    /\ pc = "returned"
    /\ Len(keystrokes) >= 10
    /\ startTime = 0 /\ endTime = 6
    /\ EarlyCount > 0 /\ LateCount > 0
    /\ \E i, j \in MiddleIndices :
         keystrokes[i].keyDownTime = 2 /\ keystrokes[j].keyDownTime = 4

\* C5: fewer than 10 events give the zeroed result whatever the timestamps
\* and the window.
C5_TooFewEventsZero ==
    pc = "returned" /\ Len(keystrokes) < 10 =>
        /\ fatigue = ZeroFatigue
        /\ metrics.fatigueDetected = FALSE
        /\ metrics.fatigueScore = 0

\* C5 witness: nine events, six early and three late, which one more event
\* would turn into a detected decline
C5_Witness ==
    /\ pc = "returned"
    /\ Len(keystrokes) = 9
    /\ startTime < endTime
    /\ EarlyCount = 6 /\ LateCount = 3
    /\ fatigue = ZeroFatigue

\* C6: 10 or more events give the zeroed result when the early or the late
\* group is empty.
C6_EmptyGroupZero ==
    (/\ pc = "returned"
     /\ Len(keystrokes) >= 10
     /\ (EarlyCount = 0 \/ LateCount = 0)) =>
        /\ fatigue = ZeroFatigue
        /\ metrics.fatigueDetected = FALSE
        /\ metrics.fatigueScore = 0

\* C6 witness: 12 events, all of them in the first third
C6_Witness ==
    /\ pc = "returned"
    /\ Len(keystrokes) = 12
    /\ startTime < endTime
    /\ EarlyCount = 12 /\ LateCount = 0
    /\ fatigue = ZeroFatigue

\* the non-null durations of the argument sequence, by index
ValidIndices == {i \in 1..Len(keystrokes) : keystrokes[i].duration # NULL}

RECURSIVE SumOver(_, _)
SumOver(f, S) ==
    IF S = {} THEN 0
    ELSE LET i == CHOOSE j \in S : TRUE IN f[i] + SumOver(f, S \ {i})

\* r = Math.round(Math.sqrt(s/n)), stated without computing it:
\* r - 1/2 <= sqrt(s/n) < r + 1/2
IsNearestSqrt(r, s, n) ==
    /\ r >= 0
    /\ r = 0 \/ (2 * r - 1) * (2 * r - 1) * n <= 4 * s
    /\ 4 * s < (2 * r + 1) * (2 * r + 1) * n

\* C7: with at least one non-null duration the standard deviation returned
\* is round(sqrt(sum((d - M)^2) / n)) over the n non-null durations d, M
\* being the rounded mean round(sum(d) / n) that
\* calculateAverageKeystrokeDuration returns.
C7_StdDevAboutRoundedMean ==
    pc = "returned" /\ ValidIndices # {} =>
        LET n == Cardinality(ValidIndices)
            dur == [i \in ValidIndices |-> keystrokes[i].duration]
            M == metrics.averageKeystrokeDuration
            sq == [i \in ValidIndices |-> (dur[i] - M) * (dur[i] - M)]
        IN  /\ IsNearest(M, SumOver(dur, ValidIndices), n)
            /\ IsNearestSqrt(metrics.keystrokeDurationStdDev,
                             SumOver(sq, ValidIndices), n)

\* C7 witness: durations 0, 0, 1: the mean 1/3 rounds to 0 and the deviation
\* about 0 is round(sqrt(1/3)) = 1, where the deviation about 1/3 rounds to 0
C7_Witness ==
    /\ pc = "returned"
    /\ Cardinality(ValidIndices) = 3
    /\ Cardinality({i \in ValidIndices : keystrokes[i].duration = 0}) = 2
    /\ Cardinality({i \in ValidIndices : keystrokes[i].duration = 1}) = 1
    /\ metrics.averageKeystrokeDuration = 0
    /\ metrics.keystrokeDurationStdDev = 1

\* the event sequences the tremor score of the argument is compared with
RECURSIVE SeqsOver(_, _)
SeqsOver(S, n) ==
    IF n = 0 THEN {<<>>}
    ELSE LET shorter == SeqsOver(S, n - 1)
         IN  shorter \cup {Append(q, x) : q \in shorter, x \in S}
OtherSequences ==
    SeqsOver({StatEvent(d, TRUE) : d \in Durations \cup {NULL}}, MaxStatEvents)
\* their rounded mean, rounded deviation and tremor score
TremorTable ==
    {[mean |-> calculateAverageKeystrokeDuration(q),
      stdDev |-> calculateKeystrokeDurationStdDev(q),
      score |-> calculateTremorScore(q)] : q \in OtherSequences}

\* C8: the tremor score lies in [0,100], and of two event sequences with
\* positive rounded mean the one with the smaller or equal coefficient of
\* variation stdDev / mean * 100 never has the larger score.
C8_TremorBoundedMonotone ==
    pc = "returned" =>
        LET mean == metrics.averageKeystrokeDuration
            stdDev == metrics.keystrokeDurationStdDev
            score == metrics.tremorSeverityScore
        IN  /\ score >= 0 /\ score <= 100
            /\ \A other \in TremorTable :
                 /\ other.score >= 0 /\ other.score <= 100
                 /\ (/\ mean > 0
                     /\ other.mean > 0
                     /\ stdDev * 100 * other.mean <= other.stdDev * 100 * mean)
                    => score <= other.score

\* C8 witness: a score strictly between 0 and 100, with a sequence of larger
\* coefficient of variation and strictly larger score to compare with
C8_Witness ==
    /\ pc = "returned"
    /\ metrics.averageKeystrokeDuration > 0
    /\ metrics.tremorSeverityScore = 29
    /\ \E other \in TremorTable :
         /\ other.mean > 0
         /\ metrics.keystrokeDurationStdDev * other.mean
              < other.stdDev * metrics.averageKeystrokeDuration
         /\ other.score > 29 /\ other.score < 100

\* C9: in every record returned by calculatePerformanceMetrics (durations
\* non-negative or null) accuracy, errorRate and tremorSeverityScore lie in
\* [0,100] and fatigueScore is at least 0.
C9_PercentagesInRange ==
    /\ metrics.accuracy >= 0 /\ metrics.accuracy <= 100
    /\ metrics.errorRate >= 0 /\ metrics.errorRate <= 100
    /\ metrics.tremorSeverityScore >= 0 /\ metrics.tremorSeverityScore <= 100
    /\ metrics.fatigueScore >= 0

\* C9 witness: a record in which none of the four fields is at a trivial
\* value
C9_Witness ==
    /\ pc = "returned"
    /\ metrics.accuracy = 50 /\ metrics.errorRate = 50
    /\ metrics.tremorSeverityScore > 0
    /\ metrics.fatigueScore > 0

\* a step in which calculatePerformanceMetrics returns
MetricsReturned == nextId' # nextId \/ (pc # "returned" /\ pc' = "returned")

\* C10: in every record returned, correctKeystrokes + incorrectKeystrokes =
\* totalKeystrokes = the number of events passed in, correctKeystrokes being
\* the number of events with isCorrect true; also for the events that key
\* presses on the page produce before Finish.
C10_KeystrokeTally ==
    [][MetricsReturned =>
         /\ metrics'.totalKeystrokes = Len(keystrokes)
         /\ metrics'.correctKeystrokes
              = Cardinality({i \in 1..Len(keystrokes) : keystrokes[i].isCorrect})
         /\ metrics'.correctKeystrokes + metrics'.incorrectKeystrokes
              = metrics'.totalKeystrokes]_vars

\* C10 witness: Finish on the page after two recorded key presses, one of
\* them correct
C10_Witness ==
    /\ pc = "page"
    /\ nextId > 0
    /\ Len(typedText) = 2
    /\ metrics.totalKeystrokes = 2
    /\ metrics.correctKeystrokes = 1
    /\ metrics.incorrectKeystrokes = 1

\* a defined finite number
IsFinite(x) == x \in Int /\ x # NAN /\ x # NULL

\* C11: no metrics function divides by zero: whatever the arguments (an empty
\* window, also with 10 or more events in both groups, an empty typed text,
\* no events, no valid duration, a rounded mean of 0), every numeric field
\* of the record returned is a defined finite number.
C11_AllFieldsFinite ==
    /\ IsFinite(metrics.wpm)
    /\ IsFinite(metrics.accuracy)
    /\ IsFinite(metrics.errorRate)
    /\ IsFinite(metrics.totalKeystrokes)
    /\ IsFinite(metrics.correctKeystrokes)
    /\ IsFinite(metrics.incorrectKeystrokes)
    /\ IsFinite(metrics.averageKeystrokeDuration)
    /\ IsFinite(metrics.keystrokeDurationStdDev)
    /\ IsFinite(metrics.tremorSeverityScore)
    /\ IsFinite(metrics.fatigueScore)
    /\ metrics.fatigueDetected \in BOOLEAN
    /\ IsFinite(fatigue.earlyWPM)
    /\ IsFinite(fatigue.lateWPM)
    /\ IsFinite(fatigue.fatigueScore)

\* C11 witness: an empty window with 10 or more events, some before and some
\* after it: both WPMs are taken over a third of 0 ms
C11_Witness ==
    /\ pc = "returned"
    /\ startTime = endTime
    /\ Len(keystrokes) >= 10
    /\ EarlyCount > 0 /\ LateCount > 0
    /\ metrics.wpm = 0
    /\ fatigue = ZeroFatigue

\* C12: calculateWPM(characterCount, 0) is 0 for every characterCount.
C12_WpmOfZeroDuration ==
    pc = "returned" /\ endTime - startTime = 0 => metrics.wpm = 0

\* C12 witness: three characters typed in a window of 0 ms
C12_Witness ==
    /\ pc = "returned"
    /\ endTime = startTime
    /\ Len(typedText) = 3
    /\ metrics.wpm = 0

\* C13: calculateAccuracy("", referenceText) is 100 for every referenceText,
\* the empty one included.
C13_EmptyTypedIsPerfect ==
    pc = "returned" /\ typedText = <<>> =>
        metrics.accuracy = 100 /\ metrics.errorRate = 0

\* C13 witness: nothing typed against an empty reference
C13_Witness ==
    /\ pc = "returned"
    /\ typedText = <<>>
    /\ referenceText = <<>>
    /\ metrics.accuracy = 100

\* C14: when no event has a non-null duration (no event at all included),
\* the average duration and the standard deviation returned are both 0.
C14_NoValidDurationZero ==
    pc = "returned" /\ ValidIndices = {} =>
        /\ metrics.averageKeystrokeDuration = 0
        /\ metrics.keystrokeDurationStdDev = 0

\* C14 witness: three events, none with a duration
C14_Witness ==
    /\ pc = "returned"
    /\ Len(keystrokes) = 3
    /\ ValidIndices = {}
    /\ metrics.averageKeystrokeDuration = 0
    /\ metrics.keystrokeDurationStdDev = 0

\* the keys that go up in a step, and the event a step appends
Released == DOMAIN held \ DOMAIN held'
Appends == Len(keystrokes') = Len(keystrokes) + 1
              /\ SubSeq(keystrokes', 1, Len(keystrokes)) = keystrokes
Appended == keystrokes'[Len(keystrokes')]
\* a press of a non-modifier key made during the running attempt ends
PressEnds(key) == key \in Released /\ key \notin ModifierKeys
                      /\ held[key].at # NULL

\* C15: during an attempt, when a press of a non-modifier key ends, exactly
\* one event is appended, carrying that key and the time that key went down;
\* every other step leaves the recorded events as they are.
C15_OneEventPerPress ==
    [][testStatus = "active" /\ testStatus' = "active" =>
           IF \E key \in Keys : PressEnds(key)
           THEN \E key \in Keys :
                    /\ PressEnds(key)
                    /\ Appends
                    /\ Appended.key = key
                    /\ Appended.keyDownTime = held[key].at
           ELSE keystrokes' = keystrokes]_vars

\* C16: the event recorded for a key whose character was entered into the
\* textarea between its keydown and its keyup has that character's position
\* in the typed text as characterIndex, and isCorrect tells whether the key
\* is the reference character at that position.
C16_IndexOfTypedCharacter ==
    [][\A key \in Chars :
           PressEnds(key) /\ held[key].pos # NULL /\ Appends
               /\ Appended.key = key =>
               /\ Appended.characterIndex = held[key].pos
               /\ Appended.isCorrect =
                      (key = CharAt(referenceText, held[key].pos))]_vars

NonDecreasingKeyDown(ks) ==
    \A i \in 1..Len(ks) - 1 : ks[i].keyDownTime <= ks[i + 1].keyDownTime

\* C17: while the status is 'active', a step leaves the recorded events
\* unchanged or appends one event at their end, and the key-down times of
\* the recorded events never decrease along the sequence.
C17_AppendOnlyInOrder ==
    [][testStatus = "active" =>
           /\ keystrokes' = keystrokes \/ Appends
           /\ NonDecreasingKeyDown(keystrokes')]_vars

\* C17 witness: two events recorded in an attempt, the second with a later
\* key-down time
C17_Witness ==
    /\ testStatus = "active"
    /\ Len(keystrokes) = 2
    /\ keystrokes[1].keyDownTime < keystrokes[2].keyDownTime

\* a pending save settles: by rejection, by resolution
Rejects == pendingSaves' # pendingSaves /\ pendingSaves' \subseteq pendingSaves
               /\ sessionsStore' = sessionsStore
Resolves == sessionsStore' # sessionsStore

\* C18: when the save of a finished attempt is rejected, the page's status
\* becomes 'completed' and the route stays; when it resolves, the route
\* becomes /results with the id of the session just stored and the status
\* is left as it is.
C18_SaveOutcome ==
    [][/\ Rejects =>
              /\ route' = route
              /\ route = "/" => testStatus' = "completed"
       /\ Resolves =>
              /\ \E session \in sessionsStore' \ sessionsStore :
                     /\ sessionsStore' = sessionsStore \cup {session}
                     /\ route' = <<"/results", session.id>>
              /\ testStatus' = testStatus]_vars

\* C18 witness: a save was rejected on the page, which shows 'completed' and
\* has stored nothing
C18_Witness ==
    /\ testStatus = "completed"
    /\ route = "/"
    /\ nextId = 1
    /\ pendingSaves = {}
    /\ sessionsStore = {}

\* C19: at most one session of the running attempt is in the sessions store.
C19_OneSessionPerAttempt ==
    Cardinality({session \in sessionsStore : session.id \in attemptIds}) <= 1

\* C20: every recorded event of the current attempt has
\* startTime <= keyDownTime <= keyUpTime and duration = keyUpTime - keyDownTime.
C20_EventsWithinAttempt ==
    pc = "page" =>
        \A i \in 1..Len(keystrokes) :
            /\ startTime <= keystrokes[i].keyDownTime
            /\ keystrokes[i].keyDownTime <= keystrokes[i].keyUpTime
            /\ keystrokes[i].duration =
                   keystrokes[i].keyUpTime - keystrokes[i].keyDownTime

\* C22: the fatigueScore returned by detectFatigue is at most 100, whatever
\* the events and the window (endTime <= startTime included).
C22_FatigueScoreAtMost100 ==
    /\ fatigue.fatigueScore <= 100
    /\ metrics.fatigueScore <= 100

\* C22 witness: the late group's WPM rounds to 0 while the early group's is
\* positive, and the score is exactly 100
C22_Witness ==
    /\ pc = "returned"
    /\ LateCount > 0
    /\ fatigue.earlyWPM > 0
    /\ fatigue.lateWPM = 0
    /\ fatigue.fatigueDetected
    /\ fatigue.fatigueScore = 100

\* the changes of status the page allows
StatusChanges == {<<"idle", "active">>, <<"completed", "active">>,
                  <<"active", "completed">>}
\* a key goes down or up
KeyEvent == DOMAIN held' # DOMAIN held
\* what Finish leaves behind
FinishState == <<endTime, metrics, fatigue, nextId, pendingSaves, attemptIds>>

\* C21: the status starts as 'idle'; it changes only from idle or completed
\* to active, by a start, and from active to completed, by a rejected save,
\* and never back to idle; while there is no start time no Finish takes
\* effect; a key event while the status is not 'active' leaves the recorded
\* events and the pending key-down time as they are.
C21_StatusTransitions ==
    /\ testStatus = "idle"
    /\ [][/\ testStatus' # testStatus =>
                /\ <<testStatus, testStatus'>> \in StatusChanges
                /\ testStatus' = "active" =>
                       startTime' = now /\ keystrokes' = <<>> /\ typedText' = <<>>
                /\ testStatus' = "completed" => Rejects
          /\ testStatus' # "idle" \/ testStatus = "idle"
          /\ startTime = NULL => FinishState' = FinishState
          /\ testStatus # "active" /\ KeyEvent =>
                /\ keystrokes' = keystrokes
                /\ currentKeyDownTime' = currentKeyDownTime]_vars

\* C21 witness: after one attempt whose save was rejected the status is
\* 'completed', and a key that went down while the status was not 'active'
\* is held with nothing recorded and no key-down time pending
C21_Witness ==
    /\ testStatus = "completed"
    /\ nextId = 1
    /\ \E key \in DOMAIN held : held[key].at = NULL
    /\ keystrokes = <<>>
    /\ currentKeyDownTime = NULL
====
